---- MODULE Spec2Model ----
(***************************************************************************)
(* Model of clean_roaming_data (src/roamingcosts.py): row normalisation,   *)
(* conditional BUP pre-aggregation, per-transporter redistribution of      *)
(* small totals, floor/round pipeline and composition of the final table.  *)
(*                                                                         *)
(* Text cells are sequences of one-character strings.  Amounts are         *)
(* integers counted in thousandths of the currency unit, so that round(2)  *)
(* and floor-to-2-decimals are real conversions (to a multiple of 10).     *)
(* Binary floating point residue is not modelled.                          *)
(***************************************************************************)
EXTENDS Integers, Sequences, FiniteSets, TLC

VARIABLES pc, raw, cut_off, df, pending, result_rows, totals_rows, final_df, trace

vars == <<pc, raw, cut_off, df, pending, result_rows, totals_rows, final_df, trace>>

(***************************************************************************)
(* Bounds of the model.                                                    *)
(***************************************************************************)
MaxRows == 3
MaxGroupRows == 3
MaxPieces == 5

(***************************************************************************)
(* Strings.                                                                *)
(***************************************************************************)
EmptyStr == << >>

\* Code point of the characters the model uses (Python compares str by code point).
Ord(c) ==
  CASE c = " " -> 32
    [] c = "-" -> 45
    [] c = "7" -> 55
    [] c = "8" -> 56
    [] c = "A" -> 65
    [] c = "B" -> 66
    [] c = "G" -> 71
    [] c = "P" -> 80
    [] c = "S" -> 83
    [] c = "T" -> 84
    [] c = "U" -> 85
    [] c = "a" -> 97
    [] c = "d" -> 100
    [] c = "l" -> 108
    [] c = "n" -> 110
    [] c = "o" -> 111
    [] c = "r" -> 114
    [] c = "t" -> 116

IsSpace(c) == c = " "

RECURSIVE LStrip(_)
LStrip(s) == IF s # << >> /\ IsSpace(Head(s)) THEN LStrip(Tail(s)) ELSE s

RECURSIVE RStrip(_)
RStrip(s) ==
  IF s # << >> /\ IsSpace(s[Len(s)]) THEN RStrip(SubSeq(s, 1, Len(s) - 1)) ELSE s

\* str.strip()
Strip(s) == RStrip(LStrip(s))

Marker == <<"B", "U", "P">>

\* str.contains(r"\s*BUP$"): the string ends with the marker token.
HasMarker(s) == Len(s) >= Len(Marker) /\ SubSeq(s, Len(s) - Len(Marker) + 1, Len(s)) = Marker

\* str.replace(r"\s*BUP$", "", regex=True): the leftmost match takes the final
\* marker together with all whitespace in front of it.
ReplaceMarker(s) ==
  IF HasMarker(s) THEN RStrip(SubSeq(s, 1, Len(s) - Len(Marker))) ELSE s

\* .str.replace(r"\s*BUP$", "", regex=True).str.strip()
MarkerBase(s) == Strip(ReplaceMarker(s))

\* Python's < on str.
RECURSIVE StrLess(_, _)
StrLess(s, t) ==
  IF t = << >> THEN FALSE
  ELSE IF s = << >> THEN TRUE
  ELSE IF Head(s) = Head(t) THEN StrLess(Tail(s), Tail(t))
  ELSE Ord(Head(s)) < Ord(Head(t))

StrLeq(s, t) == s = t \/ StrLess(s, t)

(***************************************************************************)
(* Numbers and cells.                                                      *)
(***************************************************************************)
\* One hundredth of the unit, in thousandths.
Cent == 10

\* round(2): to the nearest hundredth, a tie going to the even hundredth.
Round2(x) ==
  LET q == x \div Cent
      r == x % Cent
  IN  IF 2 * r < Cent THEN q * Cent
      ELSE IF 2 * r > Cent THEN (q + 1) * Cent
      ELSE IF q % 2 = 0 THEN q * Cent ELSE (q + 1) * Cent

\* np.floor(x * 100) / 100
Floor2(x) == (x \div Cent) * Cent

\* A cell of a table column that can hold numbers, "" and NaN.
Num(n) == [k |-> "num", v |-> n]
BlankCell == [k |-> "blank", v |-> 0]
NaNCell == [k |-> "nan", v |-> 0]
TextCell == [k |-> "text", v |-> 0]

\* pd.to_numeric(cell, errors="coerce")
ToNumeric(c) == IF c.k = "num" THEN c ELSE NaNCell

\* pd.to_numeric(col, errors="coerce").fillna(0).round(2) on a raw cell
CoerceRound(c) == IF ToNumeric(c).k = "num" THEN Round2(c.v) ELSE 0

\* np.floor(pd.to_numeric(col, errors="coerce") * 100) / 100 on a cell
FloorCell(c) == IF ToNumeric(c).k = "num" THEN Num(Floor2(c.v)) ELSE NaNCell

\* pd.to_numeric(col, errors="coerce").round(2) on a cell
RoundCell(c) == IF ToNumeric(c).k = "num" THEN Num(Round2(c.v)) ELSE NaNCell

RECURSIVE SumOver(_, _)
SumOver(s, f) == IF s = << >> THEN 0 ELSE s[1][f] + SumOver(Tail(s), f)

RECURSIVE Concat(_)
Concat(ss) == IF ss = << >> THEN << >> ELSE Head(ss) \o Concat(Tail(ss))

(***************************************************************************)
(* Row normalisation (the standardised 7 columns and the derived ones).    *)
(***************************************************************************)
\* Variant: the Transporter column itself replaced by its marker-free label.
NormalizeRowInPlace(r) ==
  LET transporter == MarkerBase(Strip(r.Transporter))
      vehicleReg == Strip(r.VehicleReg)
      oldTotal == CoerceRound(r.OldTotal)
  IN  [MSISDN |-> Strip(r.MSISDN),
       Transporter |-> transporter,
       VehicleReg |-> vehicleReg,
       CallsRoaming |-> CoerceRound(r.CallsRoaming),
       CallsData |-> CoerceRound(r.CallsData),
       TotalExclVAT |-> CoerceRound(r.TotalExclVAT),
       OldTotal |-> oldTotal,
       NewTotal |-> oldTotal,
       TransporterGroup |-> transporter,
       VehicleRegBase |-> MarkerBase(vehicleReg),
       HasBUP |-> HasMarker(vehicleReg)]

NormalizeRow(r) ==
  LET transporter == Strip(r.Transporter)
      vehicleReg == Strip(r.VehicleReg)
      oldTotal == CoerceRound(r.OldTotal)
  IN  [MSISDN |-> Strip(r.MSISDN),
       Transporter |-> transporter,
       VehicleReg |-> vehicleReg,
       CallsRoaming |-> CoerceRound(r.CallsRoaming),
       CallsData |-> CoerceRound(r.CallsData),
       TotalExclVAT |-> CoerceRound(r.TotalExclVAT),
       OldTotal |-> oldTotal,
       NewTotal |-> oldTotal,
       TransporterGroup |-> MarkerBase(transporter),
       VehicleRegBase |-> MarkerBase(vehicleReg),
       HasBUP |-> HasMarker(vehicleReg)]

NormalizeFrame(t) == [i \in 1..Len(t) |-> NormalizeRow(t[i])]

\* df.iloc[:, :7] with the 7 standard column names: the cells a frame hands to
\* the normalisation.
First7(r) ==
  [MSISDN |-> r.MSISDN,
   Transporter |-> r.Transporter,
   VehicleReg |-> r.VehicleReg,
   CallsRoaming |-> Num(r.CallsRoaming),
   CallsData |-> Num(r.CallsData),
   TotalExclVAT |-> Num(r.TotalExclVAT),
   OldTotal |-> Num(r.OldTotal)]

(***************************************************************************)
(* Conditional pre-aggregation of duplicated registrations.                *)
(***************************************************************************)
KeyLess(a, b) == StrLess(a[1], b[1]) \/ (a[1] = b[1] /\ StrLess(a[2], b[2]))

\* The (TransporterGroup, VehicleRegBase) keys in groupby's (sorted) order.
RECURSIVE SortKeys(_)
SortKeys(S) ==
  IF S = {} THEN << >>
  ELSE LET m == CHOOSE k \in S : \A j \in S \ {k} : KeyLess(k, j)
       IN  <<m>> \o SortKeys(S \ {m})

PartitionKeys(d) ==
  SortKeys({<<d[i].TransporterGroup, d[i].VehicleRegBase>> : i \in 1..Len(d)})

PartitionRows(d, key) ==
  SelectSeq(d, LAMBDA r : r.TransporterGroup = key[1] /\ r.VehicleRegBase = key[2])

\* First non-empty entry of a sequence of strings, "" when there is none.
FirstNonEmpty(ms) ==
  LET ne == SelectSeq(ms, LAMBDA m : m # EmptyStr)
  IN  IF ne = << >> THEN EmptyStr ELSE Head(ne)

MsisdnOf(g) == [i \in 1..Len(g) |-> Strip(g[i].MSISDN)]

MsisdnBase(g) ==
  LET msisdn_base == FirstNonEmpty(MsisdnOf(SelectSeq(g, LAMBDA r : ~r.HasBUP)))
  IN  IF msisdn_base = EmptyStr THEN FirstNonEmpty(MsisdnOf(g)) ELSE msisdn_base

MergedRow(key, g) ==
  [MSISDN |-> MsisdnBase(g),
   Transporter |-> key[1],
   VehicleReg |-> key[2],
   CallsRoaming |-> Round2(SumOver(g, "CallsRoaming")),
   CallsData |-> Round2(SumOver(g, "CallsData")),
   TotalExclVAT |-> Round2(SumOver(g, "TotalExclVAT")),
   OldTotal |-> Round2(SumOver(g, "OldTotal")),
   NewTotal |-> Round2(SumOver(g, "OldTotal")),
   TransporterGroup |-> key[1]]

KeptRow(tgrp, r) ==
  [MSISDN |-> r.MSISDN,
   Transporter |-> tgrp,
   VehicleReg |-> r.VehicleReg,
   CallsRoaming |-> Round2(r.CallsRoaming),
   CallsData |-> Round2(r.CallsData),
   TotalExclVAT |-> Round2(r.TotalExclVAT),
   OldTotal |-> Round2(r.OldTotal),
   NewTotal |-> Round2(r.NewTotal),
   TransporterGroup |-> tgrp]

\* Variant: any partition of two or more records merged, marker or not.
MergeAnyDuplicate(g) == Len(g) >= 2

MergeCondition(g) == Len(g) >= 2 /\ \E i \in 1..Len(g) : g[i].HasBUP

PartitionOutput(key, g) ==
  IF MergeCondition(g) THEN <<MergedRow(key, g)>>
  ELSE [i \in 1..Len(g) |-> KeptRow(key[1], g[i])]

RECURSIVE MergeKeys(_, _)
MergeKeys(d, keys) ==
  IF keys = << >> THEN << >>
  ELSE PartitionOutput(Head(keys), PartitionRows(d, Head(keys))) \o MergeKeys(d, Tail(keys))

MergeFrame(d) == MergeKeys(d, PartitionKeys(d))

(***************************************************************************)
(* Grouping by transporter and sorting a group by VehicleReg.              *)
(***************************************************************************)
RECURSIVE SortStrs(_)
SortStrs(S) ==
  IF S = {} THEN << >>
  ELSE LET m == CHOOSE k \in S : \A j \in S \ {k} : StrLess(k, j)
       IN  <<m>> \o SortStrs(S \ {m})

\* Variant: the groups taken in the order of their first row in the extract.
RECURSIVE FirstSeen(_, _)
FirstSeen(labels, seen) ==
  IF labels = << >> THEN << >>
  ELSE IF Head(labels) \in seen THEN FirstSeen(Tail(labels), seen)
  ELSE <<Head(labels)>> \o FirstSeen(Tail(labels), seen \cup {Head(labels)})

GroupKeysFirstSeen(d) ==
  FirstSeen([i \in 1..Len(raw) |-> NormalizeRow(raw[i]).TransporterGroup], {})

\* The keys df.groupby("TransporterGroup") iterates over, in its order.
GroupKeys(d) == SortStrs({d[i].TransporterGroup : i \in 1..Len(d)})

GroupRows(d, transporter) == SelectSeq(d, LAMBDA r : r.TransporterGroup = transporter)

\* sort_values(by="VehicleReg") with the default (unstable) sort: any
\* arrangement of the rows that is ascending in VehicleReg.
SortOrders(g) ==
  {p \in [1..Len(g) -> 1..Len(g)] :
     /\ \A i, j \in 1..Len(g) : i # j => p[i] # p[j]
     /\ \A i, j \in 1..Len(g) : i < j => StrLeq(g[p[i]].VehicleReg, g[p[j]].VehicleReg)}

Reorder(g, p) == [i \in 1..Len(g) |-> g[p[i]]]

(***************************************************************************)
(* Redistribution inside one transporter group.                            *)
(***************************************************************************)
\* Variant: the lower bound "> 0" of the small class left out.
IsSmallBelowCutoff(r, cutoff) == r.OldTotal < cutoff

IsSmall(r, cutoff) == r.OldTotal < cutoff /\ r.OldTotal > 0

\* Variant: the cutoff itself not counted as large.
IsLargeStrict(r, cutoff) == r.OldTotal > cutoff

IsLarge(r, cutoff) == r.OldTotal >= cutoff

RECURSIVE IndexList(_, _, _)
IndexList(mask, i, n) ==
  IF i > n THEN << >>
  ELSE IF mask[i] THEN <<i>> \o IndexList(mask, i + 1, n)
  ELSE IndexList(mask, i + 1, n)

SmallIdxs(g, cutoff) == IndexList([i \in 1..Len(g) |-> IsSmall(g[i], cutoff)], 1, Len(g))

CandidateIdxs(g, cutoff) == IndexList([i \in 1..Len(g) |-> IsLarge(g[i], cutoff)], 1, Len(g))

Elems(s) == {s[i] : i \in 1..Len(s)}

ValidTargets(candidate_idxs, idx) == {i \in Elems(candidate_idxs) : i # idx}

\* The outcomes of random.choice over the loop: one target per small index
\* (0 where there is nothing to choose from).
TargetChoices(small_idxs, candidate_idxs) ==
  {f \in [Elems(small_idxs) -> Elems(candidate_idxs) \cup {0}] :
     \A idx \in Elems(small_idxs) :
        IF ValidTargets(candidate_idxs, idx) = {} THEN f[idx] = 0
        ELSE f[idx] \in ValidTargets(candidate_idxs, idx)}

SkippedIdxs(small_idxs, candidate_idxs) ==
  {idx \in Elems(small_idxs) : ValidTargets(candidate_idxs, idx) = {}}

\* Variant: the target overwritten with the small total instead of "+=".
RECURSIVE MoveSmallOverwrite(_, _, _, _)
MoveSmallOverwrite(group, small_idxs, candidate_idxs, target) ==
  IF small_idxs = << >> THEN group
  ELSE LET idx == Head(small_idxs)
       IN  IF ValidTargets(candidate_idxs, idx) = {}
           THEN MoveSmallOverwrite(group, Tail(small_idxs), candidate_idxs, target)
           ELSE LET target_idx == target[idx]
                    added == [group EXCEPT ![target_idx].NewTotal = group[idx].OldTotal]
                    zeroed == [added EXCEPT ![idx].NewTotal = 0]
                IN  MoveSmallOverwrite(zeroed, Tail(small_idxs), candidate_idxs, target)

\* Variant: the small record not zeroed after its total was added to the target.
RECURSIVE MoveSmallKeepSource(_, _, _, _)
MoveSmallKeepSource(group, small_idxs, candidate_idxs, target) ==
  IF small_idxs = << >> THEN group
  ELSE LET idx == Head(small_idxs)
       IN  IF ValidTargets(candidate_idxs, idx) = {}
           THEN MoveSmallKeepSource(group, Tail(small_idxs), candidate_idxs, target)
           ELSE LET target_idx == target[idx]
                    added == [group EXCEPT ![target_idx].NewTotal = @ + group[idx].OldTotal]
                IN  MoveSmallKeepSource(added, Tail(small_idxs), candidate_idxs, target)

RECURSIVE MoveSmall(_, _, _, _)
MoveSmall(group, small_idxs, candidate_idxs, target) ==
  IF small_idxs = << >> THEN group
  ELSE LET idx == Head(small_idxs)
       IN  IF ValidTargets(candidate_idxs, idx) = {}
           THEN MoveSmall(group, Tail(small_idxs), candidate_idxs, target)
           ELSE LET target_idx == target[idx]
                    added == [group EXCEPT ![target_idx].NewTotal = @ + group[idx].OldTotal]
                    zeroed == [added EXCEPT ![idx].NewTotal = 0]
                IN  MoveSmall(zeroed, Tail(small_idxs), candidate_idxs, target)

\* Variant: the records other than the collector not zeroed.
CollectKeepOthers(group, collector_idx) ==
  LET total_sum == SumOver(group, "OldTotal")
  IN  [idx \in 1..Len(group) |->
         IF idx = collector_idx THEN [group[idx] EXCEPT !.NewTotal = total_sum]
         ELSE group[idx]]

Collect(group, collector_idx) ==
  LET total_sum == SumOver(group, "OldTotal")
  IN  [idx \in 1..Len(group) |->
         IF idx = collector_idx THEN [group[idx] EXCEPT !.NewTotal = total_sum]
         ELSE [group[idx] EXCEPT !.NewTotal = 0]]

(***************************************************************************)
(* Floor/round of a group, its totals and the rows appended for it.        *)
(***************************************************************************)
\* drop(columns="TransporterGroup"), floor of New Total, round of the others
FinishRow(r) ==
  [MSISDN |-> r.MSISDN,
   Transporter |-> r.Transporter,
   VehicleReg |-> r.VehicleReg,
   CallsRoaming |-> Round2(r.CallsRoaming),
   CallsData |-> Round2(r.CallsData),
   TotalExclVAT |-> Round2(r.TotalExclVAT),
   OldTotal |-> Round2(r.OldTotal),
   NewTotal |-> Floor2(r.NewTotal)]

FinishGroup(g) == [i \in 1..Len(g) |-> FinishRow(g[i])]

\* A group row as a row of the mixed-type result table.
DataRow(r) ==
  [MSISDN |-> r.MSISDN,
   Transporter |-> r.Transporter,
   VehicleReg |-> r.VehicleReg,
   CallsRoaming |-> Num(r.CallsRoaming),
   CallsData |-> Num(r.CallsData),
   TotalExclVAT |-> Num(r.TotalExclVAT),
   OldTotal |-> Num(r.OldTotal),
   NewTotal |-> Num(r.NewTotal)]

DataFrame(g) == [i \in 1..Len(g) |-> DataRow(g[i])]

GrandTotalSuffix == <<" ", "-", " ", "G", "r", "a", "n", "d", " ", "T", "o", "t", "a", "l">>

TotalRow(transporter, total_old, total_new) ==
  [MSISDN |-> EmptyStr,
   Transporter |-> transporter \o GrandTotalSuffix,
   VehicleReg |-> EmptyStr,
   CallsRoaming |-> BlankCell,
   CallsData |-> BlankCell,
   TotalExclVAT |-> BlankCell,
   OldTotal |-> Num(total_old),
   NewTotal |-> Num(total_new)]

EmptyRow ==
  [MSISDN |-> EmptyStr,
   Transporter |-> EmptyStr,
   VehicleReg |-> EmptyStr,
   CallsRoaming |-> BlankCell,
   CallsData |-> BlankCell,
   TotalExclVAT |-> BlankCell,
   OldTotal |-> BlankCell,
   NewTotal |-> NaNCell]

\* Variant: a single spacer row per group.
OneSpacerFrame == <<EmptyRow>>

SpacerFrame == <<EmptyRow, EmptyRow>>

\* The three frames appended to result_rows for one group.
GroupFrames(transporter, g) ==
  <<DataFrame(g),
    <<TotalRow(transporter, SumOver(g, "OldTotal"), SumOver(g, "NewTotal"))>>,
    SpacerFrame>>

(***************************************************************************)
(* The final table.                                                        *)
(***************************************************************************)
\* pd.concat, then floor of New Total and round of the other numeric columns
ConcatRow(r) ==
  [r EXCEPT !.NewTotal = FloorCell(@),
            !.CallsRoaming = RoundCell(@),
            !.CallsData = RoundCell(@),
            !.TotalExclVAT = RoundCell(@),
            !.OldTotal = RoundCell(@)]

ConcatFrames(frames) ==
  LET all == Concat(frames) IN [i \in 1..Len(all) |-> ConcatRow(all[i])]

SpacerMask(r) == Strip(r.Transporter) = EmptyStr

BlankRow(r) == IF SpacerMask(r) THEN [r EXCEPT !.NewTotal = BlankCell] ELSE r

BlankFrame(t) == [i \in 1..Len(t) |-> BlankRow(t[i])]

(***************************************************************************)
(* The steps of clean_roaming_data.                                        *)
(***************************************************************************)
\* Lines 39-60: the normalised frame.
Normalize ==
  /\ pc = "normalize"
  /\ df' = NormalizeFrame(raw)
  /\ pc' = "merge"
  /\ UNCHANGED <<raw, cut_off, pending, result_rows, totals_rows, final_df, trace>>

\* Lines 62-113: the frame rebuilt from the partitions; the transporter loop
\* then iterates over its group keys.
Merge ==
  /\ pc = "merge"
  /\ df' = MergeFrame(df)
  /\ pending' = GroupKeys(MergeFrame(df))
  /\ pc' = "groups"
  /\ UNCHANGED <<raw, cut_off, result_rows, totals_rows, final_df, trace>>

\* The end of one iteration of the transporter loop (lines 150-188).
AppendGroup(transporter, redistributed, branch, target, skipped, collector_idx) ==
  LET group == FinishGroup(redistributed)
  IN  /\ totals_rows' = Append(totals_rows,
                               [Transporter |-> transporter,
                                OldTotal |-> SumOver(group, "OldTotal"),
                                NewTotal |-> SumOver(group, "NewTotal")])
      /\ result_rows' = result_rows \o GroupFrames(transporter, group)
      /\ trace' = Append(trace,
                         [transporter |-> transporter,
                          group |-> group,
                          has_large |-> branch,
                          target |-> target,
                          skipped |-> skipped,
                          collector_idx |-> collector_idx])
      /\ pending' = Tail(pending)
      /\ pc' = IF Tail(pending) = << >> THEN "concat" ELSE "groups"

\* Lines 118-188: one iteration of the loop over the transporter groups.
ProcessGroup ==
  /\ pc = "groups"
  /\ pending # << >>
  /\ LET transporter == Head(pending)
         unsorted == GroupRows(df, transporter)
     IN  \E p \in SortOrders(unsorted) :
           LET group == Reorder(unsorted, p)
               small_idxs == SmallIdxs(group, cut_off)
               candidate_idxs == CandidateIdxs(group, cut_off)
           IN  IF candidate_idxs # << >>
               THEN \E target \in TargetChoices(small_idxs, candidate_idxs) :
                      AppendGroup(transporter,
                                  MoveSmall(group, small_idxs, candidate_idxs, target),
                                  TRUE, target,
                                  SkippedIdxs(small_idxs, candidate_idxs), 0)
               ELSE \E collector_idx \in 1..Len(group) :
                      AppendGroup(transporter, Collect(group, collector_idx),
                                  FALSE, << >>, {}, collector_idx)
  /\ UNCHANGED <<raw, cut_off, df, final_df>>

\* Lines 190-195: the concatenated table, floored and rounded.
ConcatResult ==
  /\ pc = "concat"
  /\ final_df' = ConcatFrames(result_rows)
  /\ pc' = "blank"
  /\ UNCHANGED <<raw, cut_off, df, pending, result_rows, totals_rows, trace>>

\* Lines 197-203: New Total blanked where the spacer mask holds; return.
BlankSpacers ==
  /\ pc = "blank"
  /\ final_df' = BlankFrame(final_df)
  /\ pc' = "done"
  /\ UNCHANGED <<raw, cut_off, df, pending, result_rows, totals_rows, trace>>

Next == Normalize \/ Merge \/ ProcessGroup \/ ConcatResult \/ BlankSpacers

(***************************************************************************)
(* Inputs.                                                                 *)
(***************************************************************************)
SeqsUpTo(S, n) == UNION {[1..k -> S] : k \in 1..n}

\* The cut-off of the number input: a whole number of units, at least 0.
Unit == 1000
CutOffs == {0, Unit}

RawRow(msisdn, transporter, vehicleReg, nums) ==
  [MSISDN |-> msisdn,
   Transporter |-> transporter,
   VehicleReg |-> vehicleReg,
   CallsRoaming |-> nums[1],
   CallsData |-> nums[2],
   TotalExclVAT |-> nums[3],
   OldTotal |-> nums[4]]

Start(rows, cutoff) ==
  /\ pc = "normalize"
  /\ raw = rows
  /\ cut_off = cutoff
  /\ df = << >>
  /\ pending = << >>
  /\ result_rows = << >>
  /\ totals_rows = << >>
  /\ final_df = << >>
  /\ trace = << >>

\* Extracts with three transporter groups (one of them the blank label), plain
\* and BUP-suffixed transporters and registrations.
ExtractCells ==
  {<<<<"T">>, <<"A">>>>,
   <<<<"T", " ", "B", "U", "P">>, <<"A", " ", "B", "U", "P">>>>,
   <<<<"T">>, <<"B">>>>,
   <<<<"S", " ", "B", "U", "P">>, <<"A">>>>,
   <<<<"B", "U", "P">>, <<"A">>>>,
   <<<<"B", "U", "P">>, <<"A", " ", "B", "U", "P", " ", "B", "U", "P">>>>}
Profiles ==
  {<<<<" ", "7">>, <<Num(104), Num(200), Num(296), Num(500)>>>>,
   <<EmptyStr, <<Num(0), TextCell, Num(300), Num(1000)>>>>}

ExtractRows == {RawRow(pr[1], c[1], c[2], pr[2]) : c \in ExtractCells, pr \in Profiles}

Init == \E rows \in SeqsUpTo(ExtractRows, MaxRows) : Start(rows, Unit)

Spec == Init /\ [][Next]_vars

\* Extracts that vary the totals inside a group.
OldTotals == {0 - 500, 0, 504, 996}
GroupCells == {<<<<"T">>, <<"A">>>>, <<<<"T">>, <<"B">>>>}

GroupExtractRows ==
  {RawRow(<<"8">>, c[1], c[2], <<Num(0), Num(0), Num(x), Num(x)>>) :
     c \in GroupCells, x \in OldTotals}

InitRedist ==
  \E rows \in SeqsUpTo(GroupExtractRows, MaxGroupRows), cutoff \in CutOffs :
    Start(rows, cutoff)

SpecRedist == InitRedist /\ [][Next]_vars

\* Extracts whose text cells are built from blanks, a letter and the marker.
Pieces == {<<" ">>, <<"A">>, Marker}

RECURSIVE Texts(_)
Texts(n) ==
  IF n = 0 THEN {EmptyStr}
  ELSE Texts(n - 1) \cup {t \o p : t \in Texts(n - 1), p \in Pieces}

RawNums ==
  {<<Num(104), Num(0 - 104), Num(296), Num(1004)>>,
   <<TextCell, Num(1000), NaNCell, Num(7)>>}

TextExtractRows ==
  {RawRow(m, c[1], c[2], n) :
     m \in {EmptyStr, <<" ", "7">>},
     c \in UNION {{<<t, <<"A">>>>, <<<<"T">>, t>>, <<t, t>>} : t \in Texts(MaxPieces)},
     n \in RawNums}

InitNorm == \E row \in TextExtractRows : Start(<<row>>, Unit)

SpecNorm == InitNorm /\ [][Next]_vars

(***************************************************************************)
(* Vocabulary of the properties: the classes of a record as the design     *)
(* states them, and the groups already redistributed.                      *)
(***************************************************************************)
SmallRecord(r) == 0 < r.OldTotal /\ r.OldTotal < cut_off

LargeRecord(r) == r.OldTotal >= cut_off

LargeIn(g) == {i \in 1..Len(g) : LargeRecord(g[i])}

SmallIn(g) == {i \in 1..Len(g) : SmallRecord(g[i])}

Processed == 1..Len(trace)

RECURSIVE SumOld(_, _)
SumOld(g, idxs) ==
  IF idxs = {} THEN 0
  ELSE LET i == CHOOSE j \in idxs : TRUE IN g[i].OldTotal + SumOld(g, idxs \ {i})

\* C1: in every redistributed group the newTotal of its data rows add up to
\* the oldTotal of the same rows, whatever targets or collector were drawn.
Conservation ==
  \A k \in Processed :
    SumOver(trace[k].group, "NewTotal") = SumOver(trace[k].group, "OldTotal")

\* A group where one of two large records received a small total.
ConservationWitness ==
  \E k \in Processed :
    LET g == trace[k].group
    IN  /\ trace[k].has_large
        /\ Cardinality(LargeIn(g)) >= 2
        /\ \E i \in SmallIn(g) : g[i].NewTotal = 0
        /\ \E j \in LargeIn(g) : g[j].NewTotal > g[j].OldTotal

\* C2 as stated: a record with oldTotal <= 0 is neither small nor large and
\* keeps newTotal = oldTotal in every group, has-large or not.
NonPositiveUntouched ==
  \A k \in Processed : \A i \in 1..Len(trace[k].group) :
    LET r == trace[k].group[i]
    IN  r.OldTotal <= 0 =>
          /\ ~SmallRecord(r)
          /\ ~LargeRecord(r)
          /\ r.NewTotal = r.OldTotal

\* C2 amended: a record with oldTotal <= 0 is never small (it is large only
\* when oldTotal = 0 = cutoff); in a has-large group it keeps
\* newTotal = oldTotal; in a no-large group it ends with the group sum when it
\* is the collector and with 0 otherwise.
NonPositiveInBranches ==
  \A k \in Processed : \A i \in 1..Len(trace[k].group) :
    LET g == trace[k].group
        r == g[i]
    IN  r.OldTotal <= 0 =>
          /\ ~SmallRecord(r)
          /\ LargeRecord(r) => (r.OldTotal = 0 /\ cut_off = 0)
          /\ LargeIn(g) # {} => r.NewTotal = r.OldTotal
          /\ LargeIn(g) = {} =>
               r.NewTotal = IF i = trace[k].collector_idx
                            THEN SumOver(g, "OldTotal") ELSE 0

\* A negative record kept at its oldTotal beside a small record that was moved
\* into a large one.
NonPositiveWitness ==
  \E k \in Processed :
    LET g == trace[k].group
    IN  /\ LargeIn(g) # {}
        /\ \E i \in 1..Len(g) : g[i].OldTotal < 0 /\ g[i].NewTotal = g[i].OldTotal
        /\ \E i \in SmallIn(g) : g[i].NewTotal = 0

\* C3 as stated: no data row ever carries a negative newTotal (redistributed
\* small records carry 0, every other record at least 0).
NoNegativeNewTotal ==
  \A k \in Processed : \A i \in 1..Len(trace[k].group) :
    LET r == trace[k].group[i]
    IN  /\ (SmallRecord(r) /\ i # trace[k].collector_idx) => r.NewTotal = 0
        /\ r.NewTotal >= 0

\* C3 amended: every redistributed small record has newTotal = 0, and every
\* other record has newTotal >= 0 unless it is a record with negative oldTotal
\* in a has-large group (it keeps that oldTotal) or the collector of a
\* no-large group whose oldTotal sum is negative (it carries that sum).
ZeroInvariant ==
  \A k \in Processed : \A i \in 1..Len(trace[k].group) :
    LET g == trace[k].group
        r == g[i]
    IN  /\ (SmallRecord(r) /\ i # trace[k].collector_idx) => r.NewTotal = 0
        /\ \/ r.NewTotal >= 0
           \/ LargeIn(g) # {} /\ r.OldTotal < 0 /\ r.NewTotal = r.OldTotal
           \/ /\ LargeIn(g) = {}
              /\ i = trace[k].collector_idx
              /\ r.NewTotal = SumOver(g, "OldTotal")

\* A no-large group whose collector carries a negative sum while a small
\* record of the group was zeroed.
ZeroInvariantWitness ==
  \E k \in Processed :
    LET g == trace[k].group
    IN  /\ LargeIn(g) = {}
        /\ \E i \in SmallIn(g) : i # trace[k].collector_idx /\ g[i].NewTotal = 0
        /\ g[trace[k].collector_idx].NewTotal < 0

\* C6: in a group with a record of oldTotal >= cutoff (equality included),
\* every small record is zeroed and added to exactly one large record other
\* than itself; each large record ends with its oldTotal plus the small totals
\* assigned to it, never below its oldTotal; the skip is never taken.
HasLargeBranch ==
  \A k \in Processed :
    LET g == trace[k].group
        target == trace[k].target
    IN  LargeIn(g) # {} =>
          /\ trace[k].has_large
          /\ trace[k].skipped = {}
          /\ DOMAIN target = SmallIn(g)
          /\ \A i \in SmallIn(g) :
               /\ g[i].NewTotal = 0
               /\ target[i] \in LargeIn(g)
               /\ target[i] # i
          /\ \A j \in LargeIn(g) :
               /\ g[j].NewTotal =
                    g[j].OldTotal + SumOld(g, {i \in SmallIn(g) : target[i] = j})
               /\ g[j].NewTotal >= g[j].OldTotal

\* Two large records, one of them exactly at the cutoff and chosen as the
\* target of a small one.
HasLargeWitness ==
  \E k \in Processed :
    LET g == trace[k].group
    IN  /\ cut_off > 0
        /\ Cardinality(LargeIn(g)) >= 2
        /\ \E i \in SmallIn(g) :
             /\ g[trace[k].target[i]].OldTotal = cut_off
             /\ g[trace[k].target[i]].NewTotal > cut_off

\* C7: in a non-empty group without a record of oldTotal >= cutoff, one
\* record (the collector) ends with the sum of oldTotal over the group and
\* every other record with 0; a single record keeps newTotal = oldTotal.
NoLargeBranch ==
  \A k \in Processed :
    LET g == trace[k].group
    IN  (Len(g) >= 1 /\ LargeIn(g) = {}) =>
          /\ ~trace[k].has_large
          /\ \E c \in 1..Len(g) :
               /\ g[c].NewTotal = SumOver(g, "OldTotal")
               /\ \A i \in 1..Len(g) \ {c} : g[i].NewTotal = 0
          /\ Len(g) = 1 => g[1].NewTotal = g[1].OldTotal

\* A no-large group of several small records, one of which collected all.
NoLargeWitness ==
  \E k \in Processed :
    LET g == trace[k].group
    IN  /\ LargeIn(g) = {}
        /\ Len(g) >= 2
        /\ \A i \in 1..Len(g) : SmallRecord(g[i])
        /\ \E c \in 1..Len(g) : g[c].NewTotal > g[c].OldTotal

(***************************************************************************)
(* Vocabulary of the properties about the final table: the block of rows   *)
(* of the k-th processed group (its data rows, one total row, two spacers).*)
(***************************************************************************)
\* The frame handed to the first iteration of the transporter loop.
AfterMerge == pc = "groups" /\ trace = << >>

Composed == pc \in {"blank", "done"}

RowsPerGroupTail == 3

RECURSIVE BlockStart(_)
BlockStart(k) ==
  IF k = 1 THEN 1 ELSE BlockStart(k - 1) + Len(trace[k - 1].group) + RowsPerGroupTail

DataRowsOf(k) == BlockStart(k)..(BlockStart(k) + Len(trace[k].group) - 1)

TotalRowOf(k) == BlockStart(k) + Len(trace[k].group)

SpacerRowsOf(k) == {TotalRowOf(k) + 1, TotalRowOf(k) + 2}

TableLength == BlockStart(Len(trace) + 1) - 1

BlocksCarryLabels ==
  /\ Len(final_df) = TableLength
  /\ \A k \in Processed :
       /\ \A i \in DataRowsOf(k) : final_df[i].Transporter = trace[k].transporter
       /\ final_df[TotalRowOf(k)].Transporter = trace[k].transporter \o GrandTotalSuffix

\* The group label of every input row, and the first input row of a label.
InputLabels == [i \in 1..Len(raw) |-> MarkerBase(Strip(raw[i].Transporter))]

FirstRowOf(labels, label) ==
  CHOOSE i \in 1..Len(labels) :
    labels[i] = label /\ \A j \in 1..(i - 1) : labels[j] # label

\* C4 as stated: the blocks of the groups follow the order in which the
\* groups first appear in the input rows.
GroupOrderFirstSeen ==
  pc = "done" =>
    /\ BlocksCarryLabels
    /\ LET labels == InputLabels
       IN  \A k, l \in Processed :
             k < l => FirstRowOf(labels, trace[k].transporter)
                        < FirstRowOf(labels, trace[l].transporter)

\* C4 amended: the output lists the transporter groups in ascending order of
\* the group label; every output row of a group precedes every output row of
\* a group with a larger label.
GroupOrderSorted ==
  pc = "done" =>
    /\ BlocksCarryLabels
    /\ \A k, l \in Processed :
         k < l => StrLess(trace[k].transporter, trace[l].transporter)

\* A finished table whose first block belongs to a group that appears in the
\* input after the group of a later block.
GroupOrderWitness ==
  /\ pc = "done"
  /\ LET labels == InputLabels
     IN  \E k, l \in Processed :
           /\ k < l
           /\ FirstRowOf(labels, trace[k].transporter)
                > FirstRowOf(labels, trace[l].transporter)
           /\ trace[k].transporter # EmptyStr

(***************************************************************************)
(* The merge rule, partition by partition.                                 *)
(***************************************************************************)
\* The (transporterGroup, vehicleRegBase) partitions of a normalised frame,
\* each with its rows in input order.
PartitionsOf(frame) ==
  LET keys == PartitionKeys(frame)
  IN  [k \in 1..Len(keys) |->
         [key |-> keys[k],
          rows |-> SelectSeq(frame,
                             LAMBDA r : /\ r.TransporterGroup = keys[k][1]
                                        /\ r.VehicleRegBase = keys[k][2])]]

MustMerge(part) == Len(part) >= 2 /\ \E i \in 1..Len(part) : HasMarker(part[i].VehicleReg)

OutputCount(part) == IF MustMerge(part) THEN 1 ELSE Len(part)

\* Number of records the partitions before the k-th one put out.
RECURSIVE OutputOffset(_, _)
OutputOffset(parts, k) ==
  IF k = 1 THEN 0 ELSE OutputOffset(parts, k - 1) + OutputCount(parts[k - 1].rows)

SameNumbers(out, r) ==
  /\ out.CallsRoaming = r.CallsRoaming
  /\ out.CallsData = r.CallsData
  /\ out.TotalExclVAT = r.TotalExclVAT
  /\ out.OldTotal = r.OldTotal
  /\ out.NewTotal = r.NewTotal

RowsOfLabel(label) == SelectSeq(df, LAMBDA r : r.TransporterGroup = label)

SameRecord(a, b) ==
  /\ a.MSISDN = b.MSISDN
  /\ a.VehicleReg = b.VehicleReg
  /\ SameNumbers(a, [b EXCEPT !.NewTotal = a.NewTotal])

\* g holds the records of src, each exactly once, in some order.
Rearranged(g, src) ==
  /\ Len(g) = Len(src)
  /\ \E p \in [1..Len(g) -> 1..Len(g)] :
       /\ \A i, j \in 1..Len(g) : i # j => p[i] # p[j]
       /\ \A i \in 1..Len(g) : SameRecord(g[i], src[p[i]])

IsBlankRow(r) ==
  /\ r.MSISDN = EmptyStr
  /\ r.Transporter = EmptyStr
  /\ r.VehicleReg = EmptyStr
  /\ r.CallsRoaming.k # "num"
  /\ r.CallsData.k # "num"
  /\ r.TotalExclVAT.k # "num"
  /\ r.OldTotal.k # "num"
  /\ r.NewTotal.k # "num"

NewTotalBlankOnlyOnSpacers ==
  pc = "done" =>
    \A k \in Processed :
      /\ \A i \in DataRowsOf(k) : final_df[i].NewTotal.k = "num"
      /\ final_df[TotalRowOf(k)].NewTotal.k = "num"
      /\ \A i \in SpacerRowsOf(k) : final_df[i].NewTotal = BlankCell

(***************************************************************************)
(* Normalising twice.                                                      *)
(***************************************************************************)
\* C9: normalising the 7 standard columns of an already normalised frame
\* gives that frame again, also for text that ends in a repeated marker.
NormalizeIdempotent ==
  pc = "merge" => NormalizeFrame([i \in 1..Len(df) |-> First7(df[i])]) = df

\* A normalised row whose transporter lost surrounding blanks, whose group
\* label still ends in the marker, and whose numbers were rounded or coerced.
NormalizeWitness ==
  /\ pc = "merge"
  /\ \E i \in 1..Len(df) :
       /\ df[i].Transporter # raw[i].Transporter
       /\ HasMarker(df[i].TransporterGroup)
       /\ df[i].TransporterGroup # df[i].Transporter
       /\ raw[i].OldTotal # Num(df[i].OldTotal)

====
